---- MODULE Spec2Model ----
(***************************************************************************)
(* Model of the RealtimeSTT WebSocket session bridge                       *)
(* (src/server/realtimestt.py).                                            *)
(*                                                                         *)
(* One asyncio event loop serves every connection.  Per connection the     *)
(* coroutine `handler` builds a recorder, starts the task `sender_task`    *)
(* and the thread `recorder_loop`, then reads frames until the transport   *)
(* closes or an exception leaves the receive loop, and finally runs the    *)
(* teardown (sender.cancel, recorder.shutdown, recorder_thread.join).      *)
(*                                                                         *)
(* Execution contexts and their atomicity:                                 *)
(*   - event loop: one step of a coroutine between two awaits is atomic    *)
(*     with respect to every other coroutine and loop callback; the        *)
(*     teardown holds no await, so while a handler is in it nothing else   *)
(*     runs on the loop (LoopFree is false);                               *)
(*   - recorder_thread (one per session) and the engine's realtime thread  *)
(*     run concurrently with the loop and with each other.                 *)
(*                                                                         *)
(* The recognition engine (RealtimeSTT.AudioToTextRecorder) is an external *)
(* library.  It is modelled only through the calls the source makes on it  *)
(* and the callbacks it makes into the source: an utterance starts with a  *)
(* speech frame, ends with a silence frame or recorder.stop(), the         *)
(* realtime thread may call on_realtime_update while it records, and       *)
(* recorder.text() returns the finished utterance to the final callback.   *)
(***************************************************************************)
EXTENDS Integers, Sequences, FiniteSets, TLC

\* ---------------------------------------------------------------- bounds
\* One connection alone: frames its client sends, and invocations of the
\* realtime callback by its engine.
MaxFrames == 3
MaxCalls == 3
\* Two concurrent connections: the same, both sessions together.
MaxFramesTwo == 2
MaxCallsTwo == 2
\* Sample conversion: samples per array, and fractional bits of a sample.
MaxSamples == 2
GridBits == 3

\* Connections the server may hold at once.
Sessions == { 1, 2 }

\* ------------------------------------------------------------ input sets
\* Texts the engine hands to the callbacks: empty, whitespace only, a word.
Texts == { <<>>, <<" ">>, <<"a">> }

Whitespace == { " " }

\* Bytes of one float32 sample (np.float32).
Float32Size == 4

\* Byte lengths of binary frames: one sample, one and a half, two.
FrameLengths == { 4, 6, 8 }

\* Binary frames: their byte length, and what the engine's voice activity
\* detection hears in the samples.
BinaryFrames == [bytes : FrameLengths, sound : { "speech", "silence" }]

\* Text frames: what json.loads makes of them.  `json` is FALSE for text that
\* is not JSON; `shape` is the Python type of the decoded value; `eos` is the
\* truth of data.get("EOS") for an object.
TextFrames ==
    { [json |-> FALSE, shape |-> "none",   eos |-> FALSE],
      [json |-> TRUE,  shape |-> "object", eos |-> TRUE],
      [json |-> TRUE,  shape |-> "object", eos |-> FALSE],
      [json |-> TRUE,  shape |-> "array",  eos |-> FALSE],
      [json |-> TRUE,  shape |-> "number", eos |-> FALSE],
      [json |-> TRUE,  shape |-> "string", eos |-> FALSE],
      [json |-> TRUE,  shape |-> "null",   eos |-> FALSE] }

NoCall == [text |-> <<>>, utt |-> -1]

VARIABLES
    transport,        \* the websocket: "none", "open", "closed"
    handler_pc,       \* position of the handler coroutine
    exit_path,        \* how the receive loop was left
    sender,           \* the sender task: "none", "run", "done"
    sender_cancel,    \* sender.cancel() was requested and not yet delivered
    recorder_thread,  \* the recorder_loop thread: "none", "run", "done", "crashed"
    is_shutdown,      \* recorder.is_shutdown
    engine,           \* the engine's utterance: "idle", "recording", "ended"
    utterance,        \* number of the engine's current utterance
    rt_call,          \* the invocation of on_realtime_update in progress
    loop_ready,       \* put_nowait callbacks scheduled by call_soon_threadsafe
    message_queue,    \* the asyncio.Queue of the session
    transport_out,    \* messages written to the websocket, in order
    pushed,           \* history: messages handed to call_soon_threadsafe
    teardown_calls,   \* history: how often each teardown step ran
    eos_mark,         \* history: Len(transport_out) at the first EOS, or -1
    frames,           \* frames the clients may still send
    calls,            \* realtime callback invocations the engines may still make
    audio_float32,    \* float32_to_int16: the samples passed in, in 1/Den units
    audio_int16       \* float32_to_int16: the bytes returned

vars == << transport, handler_pc, exit_path, sender, sender_cancel,
           recorder_thread, is_shutdown, engine, utterance, rt_call,
           loop_ready, message_queue, transport_out, pushed, teardown_calls,
           eos_mark, frames, calls, audio_float32, audio_int16 >>

\* The variables of the sample conversion, which no step of a session changes:
\* the session model keeps of a binary frame only what the engine hears in it.
conversion == << audio_float32, audio_int16 >>

\* ----------------------------------------------------------- pure helpers
\* str.strip(): leading and trailing whitespace removed.
RECURSIVE LStrip(_)
LStrip(t) ==
    IF t = <<>> THEN <<>>
    ELSE IF Head(t) \in Whitespace THEN LStrip(Tail(t)) ELSE t

RECURSIVE RStrip(_)
RStrip(t) ==
    IF t = <<>> THEN <<>>
    ELSE IF t[Len(t)] \in Whitespace THEN RStrip(SubSeq(t, 1, Len(t) - 1)) ELSE t

Strip(t) == RStrip(LStrip(t))

\* Truth value of a Python str: non-empty.
Truthy(t) == t /= <<>>

\* uid = str(websocket.remote_address): the peer's (host, port), distinct for
\* every open connection.
RemoteAddress(s) == << "127.0.0.1", 50000 + s >>

Uid(s) == RemoteAddress(s)

\* Faulty variant of QueueOf (sensitivity of C8): one module-level queue for
\* every connection.
QueueShared(s) == 1

\* The queue the closure send_update_sync of session s puts into: the
\* message_queue created by the same handler invocation.
QueueOf(s) == s

\* Faulty variant of Response (sensitivity of C11): the status derived the
\* wrong way round.
ResponseStatusSwapped(s, segment_type, text, completed, u) ==
    [ uid      |-> Uid(s),
      segments |-> << [ id        |-> << s, Len(pushed[s]) + 1 >>,
                        type      |-> segment_type,
                        text      |-> text,
                        completed |-> completed ] >>,
      status   |-> IF completed THEN "listening" ELSE "transforming",
      utt      |-> u,
      from     |-> s ]

\* The message send_update_sync builds.  `id` stands for uuid4(): fresh for
\* every message.  `utt` and `from` are history fields (the utterance the text
\* belongs to and the session whose callback built the message); they are not
\* on the wire.
Response(s, segment_type, text, completed, u) ==
    [ uid      |-> Uid(s),
      segments |-> << [ id        |-> << s, Len(pushed[s]) + 1 >>,
                        type      |-> segment_type,
                        text      |-> text,
                        completed |-> completed ] >>,
      status   |-> IF completed THEN "transforming" ELSE "listening",
      utt      |-> u,
      from     |-> s ]

\* Position of a new put_nowait callback among those already scheduled.
Schedule(ready, m) == Append(ready, m)

\* Faulty variant of QueuePut (sensitivity of C1): a last-in first-out queue.
QueuePutFront(q, m) == << m >> \o q

\* Faulty variant of QueueGet (sensitivity of C2): the sender writes the
\* newest message of the queue.
QueueGetLast(q) == q[Len(q)]

\* asyncio.Queue.put_nowait and get: first in, first out.
QueuePut(q, m) == Append(q, m)

QueueGet(q) == Head(q)

\* Faulty variant of SendUpdateSync (sensitivity of C14): the callback writes
\* to the websocket itself, from its own thread.
SendUpdateDirect(s, segment_type, text, completed, u) ==
    LET m == Response(s, segment_type, text, completed, u) IN
    /\ transport_out' = [transport_out EXCEPT ![s] = Append(@, m)]
    /\ pushed' = [pushed EXCEPT ![s] = Append(@, m)]
    /\ UNCHANGED << loop_ready, message_queue >>

\* send_update_sync: build the message, schedule put_nowait on the loop; the
\* queue and the websocket are not touched from the calling thread.
SendUpdateSync(s, segment_type, text, completed, u) ==
    LET m == Response(s, segment_type, text, completed, u) IN
    /\ loop_ready' = [loop_ready EXCEPT ![QueueOf(s)] = Schedule(@, m)]
    /\ pushed' = [pushed EXCEPT ![s] = Append(@, m)]
    /\ UNCHANGED << message_queue, transport_out >>

\* No coroutine is inside the (await-free) teardown: the loop can run others.
InTeardown(s) == handler_pc[s] \in { "cancel", "shutdown", "join" }

\* Faulty variant of LoopFree (sensitivity of C20): the finally block gives
\* the loop to others between its calls.
LoopAlwaysFree == TRUE

\* The event loop is not held by a finally block (lines 107-111, no await).
LoopFree == \A s \in Sessions : ~InTeardown(s)

\* ------------------------------------------------------------------ Init
\* One client connects.
Init ==
    /\ transport = [s \in Sessions |-> "none"]
    /\ handler_pc = [s \in Sessions |-> IF s = 1 THEN "idle" ELSE "absent"]
    /\ exit_path = [s \in Sessions |-> "none"]
    /\ sender = [s \in Sessions |-> "none"]
    /\ sender_cancel = [s \in Sessions |-> FALSE]
    /\ recorder_thread = [s \in Sessions |-> "none"]
    /\ is_shutdown = [s \in Sessions |-> FALSE]
    /\ engine = [s \in Sessions |-> "idle"]
    /\ utterance = [s \in Sessions |-> 0]
    /\ rt_call = [s \in Sessions |-> NoCall]
    /\ loop_ready = [s \in Sessions |-> <<>>]
    /\ message_queue = [s \in Sessions |-> <<>>]
    /\ transport_out = [s \in Sessions |-> <<>>]
    /\ pushed = [s \in Sessions |-> <<>>]
    /\ teardown_calls = [s \in Sessions |-> [cancel |-> 0, shutdown |-> 0, join |-> 0]]
    /\ eos_mark = [s \in Sessions |-> -1]
    /\ frames = MaxFrames
    /\ calls = MaxCalls
    /\ audio_float32 = << >>
    /\ audio_int16 = << >>

\* --------------------------------------------------------- handler: setup
\* handler up to the receive loop (lines 19-89, no await): the recorder is
\* constructed, the sender task created and the recorder thread started.  A
\* constructor that raises leaves the handler before either exists.
Connect(s) ==
    /\ handler_pc[s] = "idle"
    /\ LoopFree
    /\ \E constructed \in BOOLEAN :
         IF constructed
         THEN /\ handler_pc' = [handler_pc EXCEPT ![s] = "recv"]
              /\ transport' = [transport EXCEPT ![s] = "open"]
              /\ sender' = [sender EXCEPT ![s] = "run"]
              /\ recorder_thread' = [recorder_thread EXCEPT ![s] = "run"]
              /\ exit_path' = exit_path
         ELSE /\ handler_pc' = [handler_pc EXCEPT ![s] = "closed"]
              /\ transport' = [transport EXCEPT ![s] = "closed"]
              /\ exit_path' = [exit_path EXCEPT ![s] = "EngineError"]
              /\ UNCHANGED << sender, recorder_thread >>
    /\ UNCHANGED conversion
    /\ UNCHANGED << sender_cancel, is_shutdown, engine, utterance, rt_call,
                    loop_ready, message_queue, transport_out, pushed,
                    teardown_calls, eos_mark, frames, calls >>

\* --------------------------------------------------- handler: receive loop
\* Faulty variant of FromBufferRaises (sensitivity of C19): the bytes beyond
\* the last whole sample are ignored.
FromBufferLenient(frame) == FALSE

\* np.frombuffer(message, dtype=np.float32) raises ValueError unless the byte
\* length is a multiple of 4.
FromBufferRaises(frame) == frame.bytes % Float32Size /= 0

\* recorder.feed_audio as the engine's voice activity detection sees it:
\* speech starts an utterance, silence after speech ends it.
FeedAudio(e, frame) ==
    IF frame.sound = "speech" /\ e = "idle" THEN "recording"
    ELSE IF frame.sound = "silence" /\ e = "recording" THEN "ended"
    ELSE e

\* recorder.stop(): the utterance being recorded is finalized.
Stop(e) == IF e = "recording" THEN "ended" ELSE e

\* A binary frame (lines 93-95).
RecvBinary(s, frame) ==
    /\ handler_pc[s] = "recv"
    /\ LoopFree
    /\ frames > 0
    /\ frames' = frames - 1
    /\ IF FromBufferRaises(frame)
       THEN /\ handler_pc' = [handler_pc EXCEPT ![s] = "cancel"]
            /\ exit_path' = [exit_path EXCEPT ![s] = "ValueError"]
            /\ engine' = engine
       ELSE /\ engine' = [engine EXCEPT ![s] = FeedAudio(@, frame)]
            /\ UNCHANGED << handler_pc, exit_path >>
    /\ UNCHANGED conversion
    /\ UNCHANGED << transport, sender, sender_cancel, recorder_thread,
                    is_shutdown, utterance, rt_call, loop_ready, message_queue,
                    transport_out, pushed, teardown_calls,
                    eos_mark, calls >>

\* What the text-frame branch (lines 96-103) does with a frame:
\*   "ignore"  json.loads raised JSONDecodeError, caught and logged;
\*   "raise"   data.get raised AttributeError (the value is no dict), which
\*             neither except clause catches;
\*   "stop"    data.get("EOS") is true: recorder.stop();
\*   "none"    an object without a true EOS.
TextOutcome(f) ==
    IF ~f.json THEN "ignore"
    ELSE IF f.shape /= "object" THEN "raise"
    ELSE IF f.eos THEN "stop"
    ELSE "none"

\* A text frame (lines 96-103).
RecvText(s, f) ==
    /\ handler_pc[s] = "recv"
    /\ LoopFree
    /\ frames > 0
    /\ frames' = frames - 1
    /\ IF TextOutcome(f) = "raise"
       THEN /\ handler_pc' = [handler_pc EXCEPT ![s] = "cancel"]
            /\ exit_path' = [exit_path EXCEPT ![s] = "AttributeError"]
            /\ UNCHANGED << engine, eos_mark >>
       ELSE IF TextOutcome(f) = "stop"
       THEN /\ engine' = [engine EXCEPT ![s] = Stop(@)]
            /\ eos_mark' = [eos_mark EXCEPT ![s] =
                              IF @ = -1 THEN Len(transport_out[s]) ELSE @]
            /\ UNCHANGED << handler_pc, exit_path >>
       ELSE UNCHANGED << handler_pc, exit_path, engine, eos_mark >>
    /\ UNCHANGED conversion
    /\ UNCHANGED << transport, sender, sender_cancel, recorder_thread,
                    is_shutdown, utterance, rt_call, loop_ready, message_queue,
                    transport_out, pushed, teardown_calls, calls >>

\* The client closes the connection (or it breaks): writes fail from now on.
\* Frames received before the close are still read by the receive loop, which
\* then ends (RecvClosed).
ClientClose(s) ==
    /\ transport[s] = "open"
    /\ handler_pc[s] = "recv"
    /\ transport' = [transport EXCEPT ![s] = "closed"]
    /\ UNCHANGED conversion
    /\ UNCHANGED << handler_pc, exit_path, sender, sender_cancel,
                    recorder_thread, is_shutdown, engine, utterance, rt_call,
                    loop_ready, message_queue, transport_out, pushed,
                    teardown_calls, eos_mark, frames, calls >>

\* Faulty variant of RecvClosed (sensitivity of C12): the closed connection
\* is caught inside the loop, which goes on waiting.
RecvClosedSwallowed(s) ==
    /\ handler_pc[s] = "recv"
    /\ transport[s] = "closed"
    /\ LoopFree
    /\ UNCHANGED vars

\* `async for message in websocket` ends on a closed connection: normally
\* after a clean close, with ConnectionClosed (caught at line 105) otherwise.
\* Both continue at the finally block.
RecvClosed(s) ==
    /\ handler_pc[s] = "recv"
    /\ transport[s] = "closed"
    /\ LoopFree
    /\ handler_pc' = [handler_pc EXCEPT ![s] = "cancel"]
    /\ exit_path' = [exit_path EXCEPT ![s] = "closed"]
    /\ UNCHANGED conversion
    /\ UNCHANGED << transport, sender, sender_cancel, recorder_thread,
                    is_shutdown, engine, utterance, rt_call, loop_ready,
                    message_queue, transport_out, pushed, teardown_calls,
                    eos_mark, frames, calls >>

\* ------------------------------------------------------- handler: teardown
\* The finally block (lines 107-111) holds no await: its three calls run one
\* after the other while the event loop is held; only the threads move.

\* Task.cancel(): a task that is not done is marked for cancellation, which it
\* receives at its next step on the loop; a done task is left as it is.
TaskCancel(state) == state = "run"

\* Faulty variant of TeardownCancel (sensitivity of C6): a finally block
\* without recorder.shutdown().
TeardownCancelNoShutdown(s) ==
    /\ handler_pc[s] = "cancel"
    /\ sender_cancel' = [sender_cancel EXCEPT ![s] = TaskCancel(sender[s])]
    /\ teardown_calls' = [teardown_calls EXCEPT ![s].cancel = @ + 1]
    /\ handler_pc' = [handler_pc EXCEPT ![s] = "join"]
    /\ UNCHANGED conversion
    /\ UNCHANGED << transport, exit_path, sender, recorder_thread, is_shutdown,
                    engine, utterance, rt_call, loop_ready, message_queue,
                    transport_out, pushed, eos_mark, frames, calls >>

\* sender.cancel() (line 109).
TeardownCancel(s) ==
    /\ handler_pc[s] = "cancel"
    /\ sender_cancel' = [sender_cancel EXCEPT ![s] = TaskCancel(sender[s])]
    /\ teardown_calls' = [teardown_calls EXCEPT ![s].cancel = @ + 1]
    /\ handler_pc' = [handler_pc EXCEPT ![s] = "shutdown"]
    /\ UNCHANGED conversion
    /\ UNCHANGED << transport, exit_path, sender, recorder_thread, is_shutdown,
                    engine, utterance, rt_call, loop_ready, message_queue,
                    transport_out, pushed, eos_mark, frames, calls >>

\* recorder.shutdown() (line 110): the shutdown flag is set.
TeardownShutdown(s) ==
    /\ handler_pc[s] = "shutdown"
    /\ is_shutdown' = [is_shutdown EXCEPT ![s] = TRUE]
    /\ teardown_calls' = [teardown_calls EXCEPT ![s].shutdown = @ + 1]
    /\ handler_pc' = [handler_pc EXCEPT ![s] = "join"]
    /\ UNCHANGED conversion
    /\ UNCHANGED << transport, exit_path, sender, sender_cancel,
                    recorder_thread, engine, utterance, rt_call, loop_ready,
                    message_queue, transport_out, pushed,
                    eos_mark, frames, calls >>

\* Faulty variant of JoinReturns (sensitivity of C13): join() without a
\* timeout.
JoinNoTimeout(thread, timed_out) ==
    ~timed_out /\ thread \in { "done", "crashed" }

\* Thread.join(timeout=2): returns when the thread has ended, and after the
\* timeout when it has not.
JoinReturns(thread, timed_out) ==
    IF timed_out THEN thread = "run" ELSE thread \in { "done", "crashed" }

\* recorder_thread.join(timeout=2) (line 111), after which the handler
\* returns (or re-raises) and the connection is closed.
TeardownJoin(s) ==
    /\ handler_pc[s] = "join"
    /\ \E timed_out \in BOOLEAN : JoinReturns(recorder_thread[s], timed_out)
    /\ teardown_calls' = [teardown_calls EXCEPT ![s].join = @ + 1]
    /\ handler_pc' = [handler_pc EXCEPT ![s] = "closed"]
    /\ transport' = [transport EXCEPT ![s] = "closed"]
    /\ UNCHANGED conversion
    /\ UNCHANGED << exit_path, sender, sender_cancel, recorder_thread,
                    is_shutdown, engine, utterance, rt_call, loop_ready,
                    message_queue, transport_out, pushed, eos_mark, frames,
                    calls >>

\* ------------------------------------------------------------- event loop
\* The loop runs a put_nowait scheduled by call_soon_threadsafe (line 42).
LoopPut(s) ==
    /\ LoopFree
    /\ loop_ready[s] /= <<>>
    /\ message_queue' = [message_queue EXCEPT ![s] = QueuePut(@, Head(loop_ready[s]))]
    /\ loop_ready' = [loop_ready EXCEPT ![s] = Tail(@)]
    /\ UNCHANGED conversion
    /\ UNCHANGED << transport, handler_pc, exit_path, sender, sender_cancel,
                    recorder_thread, is_shutdown, engine, utterance, rt_call,
                    transport_out, pushed, teardown_calls,
                    eos_mark, frames, calls >>

\* Faulty variant of RunsBody (sensitivity of C18): cancellation is ignored.
RunsBodyIgnoringCancel(s) == sender[s] = "run"

\* Whether a task marked for cancellation may still run its body.
RunsBody(s) == sender[s] = "run" /\ ~sender_cancel[s]

\* One turn of sender_task (lines 72-77): take the next message and write it;
\* websocket.send raises ConnectionClosed on a closed connection, which ends
\* the task.
SenderDeliver(s) ==
    /\ LoopFree
    /\ RunsBody(s)
    /\ message_queue[s] /= <<>>
    /\ message_queue' = [message_queue EXCEPT ![s] = Tail(@)]
    /\ IF transport[s] = "open"
       THEN /\ transport_out' = [transport_out EXCEPT ![s] =
                                   Append(@, QueueGet(message_queue[s]))]
            /\ sender' = sender
       ELSE /\ sender' = [sender EXCEPT ![s] = "done"]
            /\ transport_out' = transport_out
    /\ UNCHANGED conversion
    /\ UNCHANGED << transport, handler_pc, exit_path, sender_cancel,
                    recorder_thread, is_shutdown, engine, utterance, rt_call,
                    loop_ready, pushed, teardown_calls, eos_mark,
                    frames, calls >>

\* The cancelled sender task gets CancelledError at its await and ends.
SenderCancelled(s) ==
    /\ LoopFree
    /\ sender[s] = "run"
    /\ sender_cancel[s]
    /\ sender' = [sender EXCEPT ![s] = "done"]
    /\ sender_cancel' = [sender_cancel EXCEPT ![s] = FALSE]
    /\ UNCHANGED conversion
    /\ UNCHANGED << transport, handler_pc, exit_path, recorder_thread,
                    is_shutdown, engine, utterance, rt_call, loop_ready,
                    message_queue, transport_out, pushed, teardown_calls,
                    eos_mark, frames, calls >>

\* -------------------------------------------------------- recorder thread
\* Faulty variant of Emits (sensitivity of C17): the text is tested as it
\* came, without strip().
EmitsUnstripped(text) == Truthy(text)

\* on_final_text_callback / on_realtime_update: `if text.strip():`.
Emits(text) == Truthy(Strip(text))

\* recorder.text(on_final_text_callback) returns a finished utterance (line
\* 83): the callback pushes it when it is not blank (lines 48-51).
WorkerFinal(s, text) ==
    /\ recorder_thread[s] = "run"
    /\ engine[s] = "ended"
    /\ engine' = [engine EXCEPT ![s] = "idle"]
    /\ utterance' = [utterance EXCEPT ![s] = @ + 1]
    /\ IF Emits(text)
       THEN SendUpdateSync(s, "transcribed", text, TRUE, utterance[s])
       ELSE UNCHANGED << loop_ready, pushed, message_queue, transport_out >>
    /\ UNCHANGED conversion
    /\ UNCHANGED << transport, handler_pc, exit_path, sender, sender_cancel,
                    recorder_thread, is_shutdown, rt_call, teardown_calls,
                    eos_mark, frames, calls >>

\* recorder.text raises (inference error): nothing in recorder_loop catches
\* it, the thread ends with the exception.
WorkerRaise(s) ==
    /\ recorder_thread[s] = "run"
    /\ engine[s] = "ended"
    /\ recorder_thread' = [recorder_thread EXCEPT ![s] = "crashed"]
    /\ engine' = [engine EXCEPT ![s] = "idle"]
    /\ utterance' = [utterance EXCEPT ![s] = @ + 1]
    /\ UNCHANGED conversion
    /\ UNCHANGED << transport, handler_pc, exit_path, sender, sender_cancel,
                    is_shutdown, rt_call, loop_ready, message_queue,
                    transport_out, pushed, teardown_calls,
                    eos_mark, frames, calls >>

\* `while not getattr(recorder, 'is_shutdown', False)` (line 82) sees the
\* flag: the thread ends.
WorkerExit(s) ==
    /\ recorder_thread[s] = "run"
    /\ is_shutdown[s]
    /\ recorder_thread' = [recorder_thread EXCEPT ![s] = "done"]
    /\ UNCHANGED conversion
    /\ UNCHANGED << transport, handler_pc, exit_path, sender, sender_cancel,
                    is_shutdown, engine, utterance, rt_call, loop_ready,
                    message_queue, transport_out, pushed, teardown_calls,
                    eos_mark, frames, calls >>

\* ------------------------------------------------ engine realtime thread
\* The engine's realtime thread calls on_realtime_update(text) (registered at
\* line 66) for the utterance it is recording.
RtInvoke(s, text) ==
    /\ engine[s] = "recording"
    /\ ~is_shutdown[s]
    /\ rt_call[s] = NoCall
    /\ calls > 0
    /\ calls' = calls - 1
    /\ rt_call' = [rt_call EXCEPT ![s] = [text |-> text, utt |-> utterance[s]]]
    /\ UNCHANGED conversion
    /\ UNCHANGED << transport, handler_pc, exit_path, sender, sender_cancel,
                    recorder_thread, is_shutdown, engine, utterance,
                    loop_ready, message_queue, transport_out, pushed,
                    teardown_calls, eos_mark, frames >>

\* on_realtime_update (lines 44-46) runs to its end on the realtime thread.
RtPush(s) ==
    /\ rt_call[s] /= NoCall
    /\ rt_call' = [rt_call EXCEPT ![s] = NoCall]
    /\ IF Emits(rt_call[s].text)
       THEN SendUpdateSync(s, "inprogress", rt_call[s].text, FALSE, rt_call[s].utt)
       ELSE UNCHANGED << loop_ready, pushed, message_queue, transport_out >>
    /\ UNCHANGED conversion
    /\ UNCHANGED << transport, handler_pc, exit_path, sender, sender_cancel,
                    recorder_thread, is_shutdown, engine, utterance,
                    teardown_calls, eos_mark, frames, calls >>

\* ------------------------------------------------------------------- Next
\* What the program does on its own, given no further input.
ProgramStep(s) ==
    \/ RecvClosed(s)
    \/ TeardownCancel(s)
    \/ TeardownShutdown(s)
    \/ TeardownJoin(s)
    \/ LoopPut(s)
    \/ SenderDeliver(s)
    \/ SenderCancelled(s)
    \/ \E text \in Texts : WorkerFinal(s, text)
    \/ WorkerRaise(s)
    \/ WorkerExit(s)
    \/ RtPush(s)

\* What the clients and the engines do.
EnvironmentStep(s) ==
    \/ Connect(s)
    \/ \E frame \in BinaryFrames : RecvBinary(s, frame)
    \/ \E f \in TextFrames : RecvText(s, f)
    \/ ClientClose(s)
    \/ \E text \in Texts : RtInvoke(s, text)

Next == \E s \in Sessions : ProgramStep(s) \/ EnvironmentStep(s)

Spec == Init /\ [][Next]_vars

\* What the scheduling guarantees: the event loop runs every ready callback
\* and task step, the handler's await-free teardown runs to its end, and
\* join(timeout=2) returns.  Nothing is assumed of the recorder thread, the
\* engine or the clients.
Fairness ==
    \A s \in Sessions :
        /\ WF_vars(RecvClosed(s))
        /\ WF_vars(TeardownCancel(s))
        /\ WF_vars(TeardownShutdown(s))
        /\ WF_vars(TeardownJoin(s))
        /\ WF_vars(LoopPut(s))
        /\ WF_vars(SenderDeliver(s))
        /\ WF_vars(SenderCancelled(s))

FairSpec == Spec /\ Fairness

\* Two clients connect.
InitTwo ==
    /\ transport = [s \in Sessions |-> "none"]
    /\ handler_pc = [s \in Sessions |-> "idle"]
    /\ exit_path = [s \in Sessions |-> "none"]
    /\ sender = [s \in Sessions |-> "none"]
    /\ sender_cancel = [s \in Sessions |-> FALSE]
    /\ recorder_thread = [s \in Sessions |-> "none"]
    /\ is_shutdown = [s \in Sessions |-> FALSE]
    /\ engine = [s \in Sessions |-> "idle"]
    /\ utterance = [s \in Sessions |-> 0]
    /\ rt_call = [s \in Sessions |-> NoCall]
    /\ loop_ready = [s \in Sessions |-> <<>>]
    /\ message_queue = [s \in Sessions |-> <<>>]
    /\ transport_out = [s \in Sessions |-> <<>>]
    /\ pushed = [s \in Sessions |-> <<>>]
    /\ teardown_calls = [s \in Sessions |-> [cancel |-> 0, shutdown |-> 0, join |-> 0]]
    /\ eos_mark = [s \in Sessions |-> -1]
    /\ frames = MaxFramesTwo
    /\ calls = MaxCallsTwo
    /\ audio_float32 = << >>
    /\ audio_int16 = << >>

SpecTwo == InitTwo /\ [][Next]_vars

\* ------------------------------------------------------ float32_to_int16
\* A sample is the float32 value k / Den for an integer k.  With GridBits
\* fractional bits, 32767 * k stays below 2^24 in magnitude, so the float32
\* product of line 17 is exact and is the rational Int16Scale * k / Den.
Den == 2^GridBits

\* The samples of the expected range [-1.0, 1.0].
Samples == (-Den)..Den

Int16Scale == 32767

Abs(x) == IF x < 0 THEN -x ELSE x

\* Faulty variant of AsTypeInt16 (sensitivity of C16): the fraction is dropped
\* toward minus infinity.
AsTypeInt16Floor(p, d) ==
    (((p \div d) + 2^15) % 2^16) - 2^15

\* ndarray.astype(np.int16) of the float p / d: the fraction is dropped
\* (toward zero), the integer is kept in 16 bits, two's complement.
AsTypeInt16(p, d) ==
    LET q == IF p < 0 THEN -((-p) \div d) ELSE p \div d
    IN ((q + 2^15) % 2^16) - 2^15

\* ndarray.tobytes() of one int16 on a little-endian machine: low byte first.
ToBytes(n) ==
    LET u == n % 2^16 IN << u % 2^8, u \div 2^8 >>

RECURSIVE Float32ToInt16Bytes(_)
\* (audio_float32 * 32767).astype(np.int16).tobytes()
Float32ToInt16Bytes(a) ==
    IF a = << >> THEN << >>
    ELSE ToBytes(AsTypeInt16(Head(a) * Int16Scale, Den)) \o Float32ToInt16Bytes(Tail(a))

\* The arrays of 1..MaxSamples samples.
SampleArrays == UNION { [1..n -> Samples] : n \in 1..MaxSamples }

\* One call of float32_to_int16 on any array of samples; no session exists.
InitConversion ==
    /\ transport = [s \in Sessions |-> "none"]
    /\ handler_pc = [s \in Sessions |-> "absent"]
    /\ exit_path = [s \in Sessions |-> "none"]
    /\ sender = [s \in Sessions |-> "none"]
    /\ sender_cancel = [s \in Sessions |-> FALSE]
    /\ recorder_thread = [s \in Sessions |-> "none"]
    /\ is_shutdown = [s \in Sessions |-> FALSE]
    /\ engine = [s \in Sessions |-> "idle"]
    /\ utterance = [s \in Sessions |-> 0]
    /\ rt_call = [s \in Sessions |-> NoCall]
    /\ loop_ready = [s \in Sessions |-> <<>>]
    /\ message_queue = [s \in Sessions |-> <<>>]
    /\ transport_out = [s \in Sessions |-> <<>>]
    /\ pushed = [s \in Sessions |-> <<>>]
    /\ teardown_calls = [s \in Sessions |-> [cancel |-> 0, shutdown |-> 0, join |-> 0]]
    /\ eos_mark = [s \in Sessions |-> -1]
    /\ frames = 0
    /\ calls = 0
    /\ audio_float32 \in SampleArrays
    /\ audio_int16 = << >>

Float32ToInt16 ==
    /\ audio_int16 = << >>
    /\ audio_float32 /= << >>
    /\ audio_int16' = Float32ToInt16Bytes(audio_float32)
    /\ UNCHANGED << transport, handler_pc, exit_path, sender, sender_cancel,
                    recorder_thread, is_shutdown, engine, utterance, rt_call,
                    loop_ready, message_queue, transport_out, pushed,
                    teardown_calls, eos_mark, frames, calls, audio_float32 >>

SpecConversion == InitConversion /\ [][Float32ToInt16]_vars

\* ------------------------------------------------- vocabulary of the claims
IsPrefix(a, b) == Len(a) <= Len(b) /\ SubSeq(b, 1, Len(a)) = a

IsFinal(m) == m.segments[1].completed

IsPartial(m) == ~m.segments[1].completed

\* The messages of one utterance, in the order of the sequence.
OfUtt(seq, u) == SelectSeq(seq, LAMBDA m : m.utt = u)

\* Sender task and recorder thread of the session were started.
Started(s) == sender[s] /= "none"

\* The session has nothing left to do unless a client or an engine acts.
Quiescent(s) == ~ENABLED ProgramStep(s)

\* ----------------------------------------------------------------- claims
\* C1 (FIFO delivery): in every reachable state the messages written to a
\* session's transport are a prefix of the messages its callbacks handed to
\* call_soon_threadsafe, in the same order: none reordered, duplicated or
\* skipped over.
C1_FifoDelivery ==
    \A s \in Sessions : IsPrefix(transport_out[s], pushed[s])

\* Two messages written, a third one pushed and still on its way.
C1_Witness ==
    \E s \in Sessions :
        /\ Len(transport_out[s]) >= 2
        /\ Len(pushed[s]) > Len(transport_out[s])

\* C2 as stated (ordering invariant, with "all of them"): once a session has
\* nothing left to do, every message of an utterance whose final message was
\* pushed has been written to the transport, in the order pushed.
C2_AllDelivered ==
    \A s \in Sessions : \A u \in 0..utterance[s] :
        ( /\ Quiescent(s)
          /\ \E i \in 1..Len(pushed[s]) : IsFinal(pushed[s][i]) /\ pushed[s][i].utt = u )
        => OfUtt(transport_out[s], u) = OfUtt(pushed[s], u)

\* C2 amended: of the partial messages and the final message the callbacks
\* pushed for an utterance, the transport carries a prefix, in exactly the
\* order pushed; it carries all of them once the session has nothing left to
\* do, provided the sender task still runs (the teardown has not cancelled it
\* and a closed transport has not ended it).
C2_OrderedDelivery ==
    \A s \in Sessions :
        /\ \A u \in 0..utterance[s] :
               IsPrefix(OfUtt(transport_out[s], u), OfUtt(pushed[s], u))
        /\ (Quiescent(s) /\ RunsBody(s)) => transport_out[s] = pushed[s]

\* A partial and then the final message of the same utterance were written,
\* nothing is left to do and the sender task still runs.
C2_Witness ==
    \E s \in Sessions :
        /\ Len(transport_out[s]) = 2
        /\ IsPartial(transport_out[s][1])
        /\ IsFinal(transport_out[s][2])
        /\ transport_out[s][1].utt = transport_out[s][2].utt
        /\ Quiescent(s)
        /\ RunsBody(s)

\* C3 (no partial after final): once the final message of an utterance has
\* been pushed (or written to the transport), no partial message of the same
\* utterance is pushed (or written) after it.
C3_NoPartialAfterFinal ==
    \A s \in Sessions :
        /\ \A i, j \in 1..Len(pushed[s]) :
               (i < j /\ IsFinal(pushed[s][i]) /\ IsPartial(pushed[s][j]))
               => pushed[s][i].utt /= pushed[s][j].utt
        /\ \A i, j \in 1..Len(transport_out[s]) :
               (i < j /\ IsFinal(transport_out[s][i]) /\ IsPartial(transport_out[s][j]))
               => transport_out[s][i].utt /= transport_out[s][j].utt

\* The messages written to the transport since the first EOS was processed.
SinceEos(s) == SubSeq(transport_out[s], eos_mark[s] + 1, Len(transport_out[s]))

\* C4 (end-of-stream result), its safety part: among the messages written
\* after an EOS was processed, a final message is the last one: at most one
\* final message is written and no message of any kind follows it.
C4_FinalIsLastAfterEos ==
    \A s \in Sessions :
        eos_mark[s] >= 0 =>
            \A i \in 1..Len(SinceEos(s)) :
                IsFinal(SinceEos(s)[i]) => i = Len(SinceEos(s))

\* C5 (end-of-stream termination): after an EOS was processed, a session that
\* has nothing left to do on its own is Closed with its sender task and its
\* recorder thread ended; it does not wait for the client to close.
C5_EosDrivesTeardown ==
    \A s \in Sessions :
        (eos_mark[s] >= 0 /\ Quiescent(s)) =>
            /\ handler_pc[s] = "closed"
            /\ sender[s] = "done"
            /\ recorder_thread[s] \in { "done", "crashed" }

\* The teardown step the handler is at.
TeardownStep(s) == TeardownCancel(s) \/ TeardownShutdown(s) \/ TeardownJoin(s)

\* C6 (teardown exactly once): sender.cancel(), recorder.shutdown() and
\* recorder_thread.join() have each run at most once, in that order; a
\* session that was started and is Closed has run each exactly once, whatever
\* left the receive loop; and a handler inside the teardown can always take
\* its next step (it never waits for another thread or task).
C6_TeardownOnce ==
    \A s \in Sessions :
        LET c == teardown_calls[s] IN
        /\ handler_pc[s] \in { "absent", "idle", "recv", "cancel" }
               => c = [cancel |-> 0, shutdown |-> 0, join |-> 0]
        /\ handler_pc[s] = "shutdown"
               => c = [cancel |-> 1, shutdown |-> 0, join |-> 0]
        /\ handler_pc[s] = "join"
               => c = [cancel |-> 1, shutdown |-> 1, join |-> 0]
        /\ handler_pc[s] = "closed"
               => c = IF Started(s)
                      THEN [cancel |-> 1, shutdown |-> 1, join |-> 1]
                      ELSE [cancel |-> 0, shutdown |-> 0, join |-> 0]
        /\ InTeardown(s) => ENABLED TeardownStep(s)

\* A session that processed an EOS and whose transport then closed is Closed,
\* its recorder thread joined.
C6_Witness ==
    \E s \in Sessions :
        /\ handler_pc[s] = "closed"
        /\ exit_path[s] = "closed"
        /\ eos_mark[s] >= 0
        /\ recorder_thread[s] = "done"
        /\ teardown_calls[s] = [cancel |-> 1, shutdown |-> 1, join |-> 1]

\* A text frame that does not signal end-of-stream: text that is not JSON, or
\* JSON other than an object with a true EOS.
NotEos(f) == ~(f.json /\ f.shape = "object" /\ f.eos)

\* C7 (malformed control messages are never fatal): processing a text frame
\* that does not signal end-of-stream leaves the handler in its receive loop,
\* calls neither recorder.stop() nor any teardown step, and changes nothing
\* of the engine or the session's tasks.
C7_MalformedNeverFatal ==
    [][ \A s \in Sessions : \A f \in TextFrames :
            (RecvText(s, f) /\ NotEos(f)) =>
                /\ handler_pc'[s] = "recv"
                /\ engine'[s] = engine[s]
                /\ teardown_calls'[s] = teardown_calls[s]
                /\ exit_path'[s] = "none" ]_vars

\* C8 (session isolation): every message scheduled, queued or written in a
\* session was built by that session's own callbacks and carries that
\* session's uid, which is the uid of no other session.
C8_Isolation ==
    \A s \in Sessions :
        \A seq \in { loop_ready[s], message_queue[s], transport_out[s] } :
            \A i \in 1..Len(seq) :
                /\ seq[i].from = s
                /\ seq[i].uid = Uid(s)
                /\ \A o \in Sessions \ { s } : seq[i].uid /= Uid(o)

\* Both sessions are past setup at once; each has written a message.
C8_Witness ==
    /\ \A s \in Sessions : Len(transport_out[s]) >= 1
    /\ \A s \in Sessions : handler_pc[s] = "recv"

\* C9 (Closed only after both parts stopped): in a Closed session that was
\* started, the sender task has ended and recorder_thread.join() has returned
\* (the thread joined or the timeout elapsed).
C9_ClosedAfterBothStopped ==
    \A s \in Sessions :
        (handler_pc[s] = "closed" /\ Started(s)) =>
            /\ sender[s] = "done"
            /\ teardown_calls[s].join = 1

\* C10 (engine failure tears the session down): a session whose recorder
\* thread ended with an engine exception, and which has nothing left to do on
\* its own, is Closed.
C10_EngineFailureTearsDown ==
    \A s \in Sessions :
        (recorder_thread[s] = "crashed" /\ Quiescent(s)) => handler_pc[s] = "closed"

\* C11 (message field consistency): every message handed to the Event Queue
\* holds exactly one segment and is either a final message (completed, type
\* "transcribed", status "transforming") or a partial message (not completed,
\* type "inprogress", status "listening"); no other combination occurs.
C11_FieldConsistency ==
    \A s \in Sessions : \A i \in 1..Len(pushed[s]) :
        LET m == pushed[s][i] IN
        /\ Len(m.segments) = 1
        /\ \/ /\ m.segments[1].completed = TRUE
              /\ m.segments[1].type = "transcribed"
              /\ m.status = "transforming"
           \/ /\ m.segments[1].completed = FALSE
              /\ m.segments[1].type = "inprogress"
              /\ m.status = "listening"

\* A session has pushed a partial and a final message.
C11_Witness ==
    \E s \in Sessions :
        /\ \E i \in 1..Len(pushed[s]) : pushed[s][i].status = "listening"
        /\ \E i \in 1..Len(pushed[s]) : pushed[s][i].status = "transforming"

\* C12 (write failure on a closed transport): the sender task ends while the
\* handler is still in its receive loop only after a write on a closed
\* transport, it ends without an exception, and from there the receive loop
\* ends and the teardown runs, once, to the Closed session.
C12_WriteFailureLeadsToClosed ==
    /\ [](\A s \in Sessions :
            (sender[s] = "done" /\ handler_pc[s] = "recv") => transport[s] = "closed")
    /\ \A s \in Sessions :
            (sender[s] = "done" /\ handler_pc[s] = "recv")
            ~> ( /\ handler_pc[s] = "closed"
                 /\ teardown_calls[s] = [cancel |-> 1, shutdown |-> 1, join |-> 1] )

\* The sender task took a message, found the transport closed and ended; the
\* handler has not yet left its receive loop.
C12_Witness ==
    \E s \in Sessions :
        /\ sender[s] = "done"
        /\ handler_pc[s] = "recv"
        /\ Len(pushed[s]) > Len(transport_out[s])
        /\ message_queue[s] = <<>>
        /\ loop_ready[s] = <<>>

\* C13 (bounded join): a session whose teardown has begun always reaches
\* Closed, whether or not its recorder thread ever returns.
C13_TeardownReachesClosed ==
    \A s \in Sessions : InTeardown(s) ~> handler_pc[s] = "closed"

\* The session is Closed after join timed out: its recorder thread still runs.
C13_Witness ==
    \E s \in Sessions :
        /\ handler_pc[s] = "closed"
        /\ recorder_thread[s] = "run"
        /\ is_shutdown[s]

\* C14 (single point of transport I/O): every step that writes to a
\* session's transport is a turn of that session's sender task; the steps of
\* the recorder thread and of the engine's realtime thread change neither the
\* transport nor the queue the sender task reads, they only schedule a
\* put_nowait on the loop.
C14_OnlySenderWrites ==
    [][ \A s \in Sessions :
            /\ transport_out'[s] /= transport_out[s] => SenderDeliver(s)
            /\ ((\E text \in Texts : WorkerFinal(s, text)) \/ RtPush(s)) =>
                   /\ transport_out' = transport_out
                   /\ message_queue' = message_queue
                   /\ IsPrefix(loop_ready[s], loop_ready'[s]) ]_vars

\* Messages of both callbacks were pushed from their threads and written by
\* the sender task.
C14_Witness ==
    \E s \in Sessions :
        /\ \E i \in 1..Len(transport_out[s]) : IsFinal(transport_out[s][i])
        /\ \E i \in 1..Len(transport_out[s]) : IsPartial(transport_out[s][i])
        /\ sender[s] = "run"

\* C15 (one worker and one delivery loop): while a session is Active or
\* Stopping, from the start of its receive loop until the join has returned,
\* its sender task is running and its recorder thread is running.
C15_ExactlyOneEach ==
    \A s \in Sessions :
        handler_pc[s] \in { "recv", "cancel", "shutdown", "join" } =>
            /\ sender[s] = "run"
            /\ recorder_thread[s] = "run"

\* The int16 that two bytes hold, little-endian, two's complement.
Int16Of(lo, hi) ==
    LET u == lo + 2^8 * hi IN IF u >= 2^15 THEN u - 2^16 ELSE u

\* The samples a byte string holds, read as little-endian int16.
DecodeInt16(b) == [i \in 1..(Len(b) \div 2) |-> Int16Of(b[2 * i - 1], b[2 * i])]

\* round(p / d): the nearest integer, a tie going to the even one.
Round(p, d) ==
    LET f == p \div d
        r == p % d
    IN  IF 2 * r < d THEN f
        ELSE IF 2 * r > d THEN f + 1
        ELSE IF f % 2 = 0 THEN f ELSE f + 1

Converted == audio_int16 /= << >>

\* C16 as stated (sample conversion): every sample s of the array comes out
\* as the 16-bit signed integer round(s * 32767).
C16_RoundsToNearest ==
    Converted =>
        /\ Len(audio_int16) = 2 * Len(audio_float32)
        /\ \A i \in 1..Len(audio_float32) :
               DecodeInt16(audio_int16)[i] = Round(audio_float32[i] * Int16Scale, Den)

\* C16 as the code has it: every sample s of the array comes out, two bytes
\* little-endian, as s * 32767 with its fraction dropped: the integer n of
\* the sign of s with |n| <= |s * 32767| < |n| + 1.
C16_TruncatesTowardZero ==
    Converted =>
        /\ Len(audio_int16) = 2 * Len(audio_float32)
        /\ \A i \in 1..Len(audio_int16) : audio_int16[i] \in 0..(2^8 - 1)
        /\ \A i \in 1..Len(audio_float32) :
               LET n == DecodeInt16(audio_int16)[i]
                   p == audio_float32[i] * Int16Scale
               IN  /\ (p >= 0 => n >= 0) /\ (p <= 0 => n <= 0)
                   /\ Abs(n) * Den <= Abs(p)
                   /\ Abs(p) < (Abs(n) + 1) * Den

\* A positive and a negative sample whose products have a fraction above one
\* half were converted.
C16_Witness ==
    /\ Converted
    /\ \E i, j \in 1..Len(audio_float32) :
           /\ audio_float32[i] > 0
           /\ 2 * ((audio_float32[i] * Int16Scale) % Den) > Den
           /\ audio_float32[j] < 0
           /\ 2 * ((-audio_float32[j] * Int16Scale) % Den) > Den

\* The text holds a character that is not whitespace.
NonBlank(text) == \E i \in 1..Len(text) : text[i] \notin Whitespace

\* The step hands exactly one message to the queue of s, with this text and
\* this completed flag.
PushesOne(s, text, completed) ==
    /\ Len(pushed'[s]) = Len(pushed[s]) + 1
    /\ SubSeq(pushed'[s], 1, Len(pushed[s])) = pushed[s]
    /\ LET m == pushed'[s][Len(pushed'[s])]
       IN  /\ m.segments[1].text = text
           /\ m.segments[1].completed = completed
           /\ loop_ready'[s] = Append(loop_ready[s], m)

PushesNothing(s) == pushed'[s] = pushed[s] /\ loop_ready'[s] = loop_ready[s]

\* C17 as stated (one event per callback): a callback whose text is not the
\* empty string pushes exactly one message, a callback with the empty string
\* pushes nothing.
C17_OnePerNonEmptyText ==
    [][ \A s \in Sessions :
            /\ RtPush(s) =>
                   IF rt_call[s].text /= << >>
                   THEN PushesOne(s, rt_call[s].text, FALSE)
                   ELSE PushesNothing(s)
            /\ \A text \in Texts : WorkerFinal(s, text) =>
                   IF text /= << >>
                   THEN PushesOne(s, text, TRUE)
                   ELSE PushesNothing(s) ]_vars

\* C17 as the code has it: a callback whose text holds a character that is
\* not whitespace pushes exactly one message (a partial one from the realtime
\* callback, a final one from the final callback), whatever was pushed
\* before; a callback whose text is empty or all whitespace pushes nothing.
C17_OnePerNonBlankText ==
    [][ \A s \in Sessions :
            /\ RtPush(s) =>
                   IF NonBlank(rt_call[s].text)
                   THEN PushesOne(s, rt_call[s].text, FALSE)
                   ELSE PushesNothing(s)
            /\ \A text \in Texts : WorkerFinal(s, text) =>
                   IF NonBlank(text)
                   THEN PushesOne(s, text, TRUE)
                   ELSE PushesNothing(s) ]_vars

\* Two partial messages with the same text were pushed one after the other,
\* and a further realtime callback with a blank text has returned.
C17_Witness ==
    \E s \in Sessions :
        /\ \E i \in 1..(Len(pushed[s]) - 1) :
               /\ IsPartial(pushed[s][i])
               /\ IsPartial(pushed[s][i + 1])
               /\ pushed[s][i].segments[1].text = pushed[s][i + 1].segments[1].text
        /\ calls = 0
        /\ rt_call[s] = NoCall
        /\ Len(pushed[s]) = 2

\* C18 (events are dropped at teardown): once the finally block has called
\* sender.cancel(), the sender task takes no further turn: nothing more is
\* written to the session's transport, and the messages in its queue, those
\* put there later included, stay there.
C18_NothingDeliveredAfterCancel ==
    [][ \A s \in Sessions :
            teardown_calls[s].cancel >= 1 =>
                /\ transport_out'[s] = transport_out[s]
                /\ IsPrefix(message_queue[s], message_queue'[s])
                /\ ~SenderDeliver(s) ]_vars

\* A Closed session whose sender task ended by the cancellation, with
\* messages left in its queue, the last one a final transcript that was
\* pushed and never written.
C18_Witness ==
    \E s \in Sessions :
        /\ handler_pc[s] = "closed"
        /\ teardown_calls[s].cancel = 1
        /\ sender[s] = "done"
        /\ loop_ready[s] = << >>
        /\ message_queue[s] /= << >>
        /\ IsFinal(message_queue[s][Len(message_queue[s])])
        /\ Len(transport_out[s]) + Len(message_queue[s]) = Len(pushed[s])

\* C19 (a badly sized binary frame ends the session): a binary frame whose
\* byte length is not a multiple of 4 feeds nothing to the engine and takes
\* the handler out of its receive loop with ValueError, into the finally
\* block; from there the session gets Closed with cancel, shutdown and join
\* called exactly once each.
C19_BadSizeTearsDown ==
    /\ [][ \A s \in Sessions : \A frame \in BinaryFrames :
               (RecvBinary(s, frame) /\ frame.bytes % 4 /= 0) =>
                   /\ engine' = engine
                   /\ handler_pc'[s] = "cancel"
                   /\ exit_path'[s] = "ValueError"
                   /\ teardown_calls[s] = [cancel |-> 0, shutdown |-> 0, join |-> 0] ]_vars
    /\ \A s \in Sessions :
           exit_path[s] = "ValueError"
           ~> ( /\ handler_pc[s] = "closed"
                /\ teardown_calls[s] = [cancel |-> 1, shutdown |-> 1, join |-> 1] )
    /\ [](\A s \in Sessions :
           exit_path[s] = "ValueError" => handler_pc[s] /= "recv")

\* A session Closed by a badly sized frame that arrived during an utterance.
C19_Witness ==
    \E s \in Sessions :
        /\ handler_pc[s] = "closed"
        /\ exit_path[s] = "ValueError"
        /\ transport_out[s] /= << >>
        /\ teardown_calls[s] = [cancel |-> 1, shutdown |-> 1, join |-> 1]

\* C20 (teardown blocks the shared event loop): while one session is in its
\* finally block, no other session's handler moves, no put_nowait callback of
\* another session runs and no other sender task takes a turn; the callbacks
\* scheduled meanwhile wait in order.  Nothing of a session whose sender task
\* is running is lost or reordered: what was written, what is in the queue and
\* what waits on the loop are, in this order, what was pushed.
C20_TeardownBlocksLoop ==
    /\ [][ \A s \in Sessions : \A o \in Sessions \ { s } :
               InTeardown(s) =>
                   /\ handler_pc'[o] = handler_pc[o]
                   /\ sender'[o] = sender[o]
                   /\ message_queue'[o] = message_queue[o]
                   /\ transport_out'[o] = transport_out[o]
                   /\ IsPrefix(loop_ready[o], loop_ready'[o]) ]_vars
    /\ [](\A o \in Sessions :
               sender[o] = "run" =>
                   transport_out[o] \o message_queue[o] \o loop_ready[o] = pushed[o])

\* One session is at its join while the other, Active on an open transport,
\* has a message in its queue and a callback waiting on the loop.
C20_Witness ==
    \E s \in Sessions : \E o \in Sessions \ { s } :
        /\ handler_pc[s] = "join"
        /\ handler_pc[o] = "recv"
        /\ transport[o] = "open"
        /\ sender[o] = "run"
        /\ message_queue[o] /= << >>
        /\ loop_ready[o] /= << >>

====
